---- MODULE Spec2Model ----
(***************************************************************************)
(* A model of pyHEDGES (src/hedges.py): the hash mixer, the constraint-    *)
(* aware encoder, the decoder and the A*-style repair search.              *)
(*                                                                         *)
(* Nucleotides are the strings "A", "C", "G", "T"; a DNA string is a       *)
(* sequence of nucleotides; a binary message is a sequence over {0, 1}.    *)
(* 64-bit integers (numpy.longlong) are words of eight 8-bit limbs, least  *)
(* significant limb first, so that wrap-around multiplication, addition,   *)
(* shifts and exclusive-or are computed bit-exactly.                       *)
(* Scores are kept in thousandths (correct_penalty = -0.035 is -35).       *)
(***************************************************************************)
EXTENDS Integers, Sequences, FiniteSets, TLC

(***************************************************************************)
(* Bounds of the model.                                                    *)
(***************************************************************************)
MaxBits == 4
MaxRepairBits == 3
MaxFairBits == 2
MaxHeap == 40
MaxHashArg == 63
\* the longest string the encoder is followed to
MaxStrand == 12

(***************************************************************************)
(* 64-bit arithmetic of hash_function.                                     *)
(***************************************************************************)
\* a word from its limbs; the tuple is built at once, limb k at index k + 1
MkWord(limb(_)) ==
    <<limb(0), limb(1), limb(2), limb(3), limb(4), limb(5), limb(6), limb(7)>>

Limb(a, k) == a[k + 1]

\* F(v), with v evaluated once before F is applied to it
Strict(F(_), v) == CHOOSE y \in {F(x) : x \in {v}} : TRUE

Pow2(n) == 2 ^ n

\* x % (2 ** n) for 0 <= x < 2^31, the range of every value the model feeds in
Mod2Pow(x, n) == IF n >= 31 THEN x ELSE x % Pow2(n)

\* bit i of x
Bit(x, i) == (x \div Pow2(i)) % 2

\* x | y from bit i upwards, for 0 <= x, y < 2^30
RECURSIVE BitOrFrom(_, _, _)
BitOrFrom(x, y, i) ==
    IF Pow2(i) > x /\ Pow2(i) > y THEN 0
    ELSE (IF Bit(x, i) + Bit(y, i) > 0 THEN Pow2(i) ELSE 0) + BitOrFrom(x, y, i + 1)

BitOr(x, y) ==
    LET or(pair) == BitOrFrom(pair[1], pair[2], 0)
    IN  Strict(or, <<x, y>>)

\* x ^ y on the n low bits, from bit i upwards
RECURSIVE XorBitsFrom(_, _, _, _)
XorBitsFrom(x, y, n, i) ==
    IF i = n THEN 0
    ELSE ((Bit(x, i) + Bit(y, i)) % 2) * Pow2(i) + XorBitsFrom(x, y, n, i + 1)

XorBits(x, y, n) == XorBitsFrom(x, y, n, 0)

WordOfNat(n) ==
    LET limb(i) == IF i < 4 THEN (n \div Pow2(8 * i)) % 256 ELSE 0
    IN  MkWord(limb)

\* 3935559000370003845 = 0x369DEA0F31A53F85
MulConst1 == <<133, 63, 165, 49, 15, 234, 157, 54>>
\* 2691343689449507681 = 0x255992D382208B61
AddConst == <<97, 139, 32, 130, 211, 146, 89, 37>>
\* 4768777513237032717 = 0x422E19E1D95D2F0D
MulConst2 == <<13, 47, 93, 217, 225, 25, 46, 66>>

RECURSIVE ColumnSum(_, _, _, _)
ColumnSum(a, b, k, i) ==
    IF i > k THEN 0 ELSE Limb(a, i) * Limb(b, k - i) + ColumnSum(a, b, k, i + 1)

RECURSIVE MulCarry(_, _, _)
MulCarry(a, b, k) ==
    IF k = 0 THEN 0
    ELSE (ColumnSum(a, b, k - 1, 0) + MulCarry(a, b, k - 1)) \div 256

\* a * b modulo 2^64
MulWord(a, b) ==
    LET limb(k) == (ColumnSum(a, b, k, 0) + MulCarry(a, b, k)) % 256
    IN  MkWord(limb)

RECURSIVE AddCarry(_, _, _)
AddCarry(a, b, k) ==
    IF k = 0 THEN 0
    ELSE (Limb(a, k - 1) + Limb(b, k - 1) + AddCarry(a, b, k - 1)) \div 256

\* a + b modulo 2^64
AddWord(a, b) ==
    LET limb(k) == (Limb(a, k) + Limb(b, k) + AddCarry(a, b, k)) % 256
    IN  MkWord(limb)

XorWord(a, b) ==
    LET limb(k) == XorBits(Limb(a, k), Limb(b, k), 8)
    IN  MkWord(limb)

\* a << s on a 64-bit word
ShlWord(a, s) ==
    LET q == s \div 8
        r == s % 8
        lo(j) == IF j < 0 THEN 0 ELSE Limb(a, j)
        limb(k) == ((lo(k - q) * Pow2(r)) % 256) + (lo(k - q - 1) \div Pow2(8 - r))
    IN  MkWord(limb)

\* a >> s on a signed 64-bit word (arithmetic shift: the sign bit fills)
SarWord(a, s) ==
    LET q == s \div 8
        r == s % 8
        sign == IF Limb(a, 7) >= 128 THEN 255 ELSE 0
        hi(j) == IF j > 7 THEN sign ELSE Limb(a, j)
        limb(k) == (hi(k + q) \div Pow2(r)) + ((hi(k + q + 1) % Pow2(r)) * Pow2(8 - r))
    IN  MkWord(limb)

hash_function(source_value) ==
    LET l19(x) == MulWord(WordOfNat(x), MulConst1)
        l20(t) == AddWord(t, AddConst)
        l21(t) == XorWord(t, SarWord(t, 21))
        l22(t) == XorWord(t, ShlWord(t, 37))
        l23(t) == XorWord(t, SarWord(t, 4))
        l24(t) == MulWord(t, MulConst2)
        l25(t) == XorWord(t, ShlWord(t, 20))
        l26(t) == XorWord(t, SarWord(t, 41))
        l27(t) == XorWord(t, ShlWord(t, 5))
    IN  Strict(l27, Strict(l26, Strict(l25, Strict(l24, Strict(l23,
        Strict(l22, Strict(l21, Strict(l20, Strict(l19, source_value)))))))))

\* the low two bits of hash_function(x)
HashLow(x) == Limb(hash_function(x), 0) % 4

\* HashLow(0), ..., HashLow(n - 1) as a tuple
RECURSIVE HashLows(_)
HashLows(n) == IF n = 0 THEN <<>> ELSE Append(HashLows(n - 1), HashLow(n - 1))

\* the low two bits of the hash, tabulated once for the small arguments
HashTable == HashLows(MaxHashArg + 1)

\* hash_function(x) % m for m = 2 or m = 4 (numpy % is non-negative for m > 0)
HashMod(x, m) ==
    (IF x <= MaxHashArg THEN HashTable[x + 1] ELSE HashLow(x)) % m

(***************************************************************************)
(* Sequences.                                                              *)
(***************************************************************************)
\* s[-n:] of Python
LastN(s, n) == IF Len(s) <= n THEN s ELSE SubSeq(s, Len(s) - n + 1, Len(s))

\* s[:n] of Python, 0 <= n
FirstN(s, n) == IF Len(s) <= n THEN s ELSE SubSeq(s, 1, n)

\* "m in s" of Python strings: m occurs as a contiguous block of s
Contains(s, m) ==
    \E i \in 0..(Len(s) - Len(m)) : SubSeq(s, i + 1, i + Len(m)) = m

Count(s, set) == Cardinality({i \in 1..Len(s) : s[i] \in set})

\* InSeq without the membership test
InSeqAny(x, s) == TRUE

InSeq(x, s) == \E i \in 1..Len(s) : s[i] = x

RECURSIVE BitStrings(_)
BitStrings(n) ==
    IF n = 0 THEN {<<>>}
    ELSE {Append(b, x) : b \in BitStrings(n - 1), x \in {0, 1}}

\* dsw.bit_to_number(bits, is_string=False): the bits read most significant first
RECURSIVE BitsValue(_, _)
BitsValue(bits, n) == IF n = 0 THEN 0 ELSE 2 * BitsValue(bits, n - 1) + bits[n]

bit_to_number(bits) == BitsValue(bits, Len(bits))

(***************************************************************************)
(* The constraint oracle bio_filter.valid(sequence, only_last=True) of a   *)
(* dsw.LocalBioFilter: a record of the observed window length, the longest *)
(* homopolymer run allowed (0: no limit), the GC range in tenths (<<>>: no *)
(* limit) and the undesired motifs.                                        *)
(***************************************************************************)
Complement(n) ==
    CASE n = "A" -> "T" [] n = "T" -> "A" [] n = "C" -> "G" [] n = "G" -> "C"

ReverseComplement(m) == [i \in 1..Len(m) |-> Complement(m[Len(m) + 1 - i])]

valid(filter, sequence) ==
    LET observed == LastN(sequence, filter.observed_length)
        gc_count == Count(observed, {"C", "G"})
        at_count == Count(observed, {"A", "T"})
        window == filter.observed_length
    IN  /\ filter.max_homopolymer_runs > 0 =>
              \A n \in {"A", "C", "G", "T"} :
                  ~ Contains(observed,
                             [i \in 1..(filter.max_homopolymer_runs + 1) |-> n])
        /\ \A m \in filter.undesired_motifs :
              /\ ~ Contains(observed, m)
              /\ ~ Contains(observed, ReverseComplement(m))
        /\ filter.gc_range # <<>> =>
              IF Len(observed) >= window
              THEN /\ gc_count * 10 <= filter.gc_range[2] * window
                   /\ gc_count * 10 >= filter.gc_range[1] * window
              ELSE /\ gc_count * 10 <= filter.gc_range[2] * window
                   /\ at_count * 10 <= (10 - filter.gc_range[1]) * window

\* the nucleotides of the mapping, in mapping order, that keep the string valid
Available(filter, mapping, string) ==
    SelectSeq(mapping, LAMBDA n : valid(filter, Append(string, n)))

(***************************************************************************)
(* encode: one iteration of its while loop.                                *)
(***************************************************************************)
\* bit_index | previous_value | salt_index
HashInput(bit_index, previous_value, salt_index) ==
    BitOr(BitOr(bit_index, previous_value), salt_index)

\* the previous_value of the encoder: the window of previous_number message
\* bits before bit_location, or 0 while fewer bits precede it
EncodePrevious(binary_message, bit_location, previous_number) ==
    IF bit_location - previous_number >= 0
    THEN bit_to_number(SubSeq(binary_message,
                              bit_location - previous_number + 1, bit_location))
    ELSE 0

\* EncodeConsumed that advances by one bit where four nucleotides are available
EncodeConsumedOne(k) == IF k = 1 THEN 0 ELSE 1

\* the number of message bits one nucleotide consumes when k are available
EncodeConsumed(k) == IF k = 1 THEN 0 ELSE IF k = 2 \/ k = 3 THEN 1 ELSE 2

\* bit_value of the encoder at bit_location when k nucleotides are available
EncodeBitValue(binary_message, bit_location, k) ==
    IF k = 2 \/ k = 3
    THEN binary_message[bit_location + 1]
    ELSE IF bit_location + 2 <= Len(binary_message)
         THEN binary_message[bit_location + 1] * 2 + binary_message[bit_location + 2]
         ELSE binary_message[bit_location + 1]

\* EncodeNucleotide that indexes all three entries when three are available
EncodeNucleotideThird(available_nucleotides, hash_input, bit_value) ==
    LET k == Len(available_nucleotides)
        pick2(h) == available_nucleotides[((HashMod(h, 2) + bit_value) % 2) + 1]
        pick3(h) == available_nucleotides[((HashMod(h, 4) + bit_value) % 3) + 1]
        pick4(h) == available_nucleotides[((HashMod(h, 4) + bit_value) % 4) + 1]
    IN  IF k = 1 THEN available_nucleotides[1]
        ELSE IF k = 2 THEN Strict(pick2, hash_input)
        ELSE IF k = 3 THEN Strict(pick3, hash_input)
        ELSE Strict(pick4, hash_input)

\* the nucleotide the encoder emits
EncodeNucleotide(available_nucleotides, hash_input, bit_value) ==
    LET k == Len(available_nucleotides)
        pick2(h) == available_nucleotides[((HashMod(h, 2) + bit_value) % 2) + 1]
        pick4(h) == available_nucleotides[((HashMod(h, 4) + bit_value) % 4) + 1]
    IN  IF k = 1 THEN available_nucleotides[1]
        ELSE IF k = 2 \/ k = 3 THEN Strict(pick2, hash_input)
        ELSE Strict(pick4, hash_input)

\* EncodeBlocked that also raises when a single nucleotide is available
EncodeBlockedEarly(available_nucleotides) == Len(available_nucleotides) <= 1

\* whether the encoder raises ValueError after recomputing the available set
EncodeBlocked(available_nucleotides) == Len(available_nucleotides) = 0

\* the encoder state after one iteration of the loop
EncodeIteration(in, e) ==
    LET k == Len(e.available_nucleotides)
        salt_index == Mod2Pow(in.strand_index, in.salt_number)
        bit_index == Mod2Pow(e.bit_location, in.low_order_number)
        previous_value ==
            EncodePrevious(in.binary_message, e.bit_location, in.previous_number)
        bit_value ==
            IF k = 1 THEN 0
            ELSE EncodeBitValue(in.binary_message, e.bit_location, k)
        nucleotide ==
            EncodeNucleotide(e.available_nucleotides,
                             HashInput(bit_index, previous_value, salt_index),
                             bit_value)
        emit(string) ==
            LET available == Available(in.bio_filter, in.mapping, string)
            IN  [dna_string |-> string,
                 available_nucleotides |-> available,
                 bit_location |-> e.bit_location + EncodeConsumed(k),
                 pc |-> IF EncodeBlocked(available) THEN "raised" ELSE "loop",
                 error_index |->
                     IF EncodeBlocked(available) THEN in.strand_index ELSE -1,
                 result |-> <<>>]
    IN  Strict(emit, Append(e.dna_string, nucleotide))

\* the encoder state at line 64
EncodeEntry(in) ==
    [dna_string |-> <<>>, available_nucleotides |-> in.mapping,
     bit_location |-> 0, pc |-> "loop", error_index |-> -1, result |-> <<>>]

\* the encoder state when the loop condition fails and dna_string is returned
EncodeExit(e) == [e EXCEPT !.pc = "returned", !.result = e.dna_string]

\* encode as a function: the final state of the run from state e
RECURSIVE EncodeRun(_, _)
EncodeRun(in, e) ==
    IF e.pc # "loop" THEN e
    ELSE IF e.bit_location < Len(in.binary_message)
         THEN LET rest(x) == EncodeRun(in, x)
              IN  Strict(rest, EncodeIteration(in, e))
         ELSE EncodeExit(e)

encode(in) == EncodeRun(in, EncodeEntry(in))

(***************************************************************************)
(* decode: one iteration of its for loop.                                  *)
(***************************************************************************)
DecodePrevious(binary_message, previous_number) ==
    IF Len(binary_message) - previous_number >= 0
    THEN bit_to_number(LastN(binary_message, previous_number))
    ELSE 0

\* the least bit_value of range(4) whose nucleotide is the one read, or 4
RECURSIVE DecodeSearch(_, _, _, _)
DecodeSearch(available_nucleotides, hash_value, nucleotide, bit_value) ==
    IF bit_value = 4 THEN 4
    ELSE IF available_nucleotides[((hash_value + bit_value) % 4) + 1] = nucleotide
         THEN bit_value
         ELSE DecodeSearch(available_nucleotides, hash_value, nucleotide,
                           bit_value + 1)

\* DecodeBits that keeps the high bit of bit_value at the ragged end
DecodeBitsHigh(available_nucleotides, hash_input, nucleotide, produced, bit_length) ==
    LET k == Len(available_nucleotides)
    IN  IF k = 1 THEN <<>>
        ELSE IF k = 2 \/ k = 3
        THEN IF available_nucleotides[((HashMod(hash_input, 2) + 0) % 2) + 1]
                  = nucleotide
             THEN <<0>> ELSE <<1>>
        ELSE LET bit_value ==
                     DecodeSearch(available_nucleotides, HashMod(hash_input, 4),
                                  nucleotide, 0)
             IN  IF bit_value = 4 THEN <<>>
                 ELSE IF produced + 2 > bit_length
                      THEN <<bit_value \div 2>>
                      ELSE <<bit_value \div 2, bit_value % 2>>

\* the bits the decoder appends for one nucleotide
DecodeBits(available_nucleotides, hash_input, nucleotide, produced, bit_length) ==
    LET k == Len(available_nucleotides)
    IN  IF k = 1 THEN <<>>
        ELSE IF k = 2 \/ k = 3
        THEN IF available_nucleotides[((HashMod(hash_input, 2) + 0) % 2) + 1]
                  = nucleotide
             THEN <<0>> ELSE <<1>>
        ELSE LET bit_value ==
                     DecodeSearch(available_nucleotides, HashMod(hash_input, 4),
                                  nucleotide, 0)
             IN  IF bit_value = 4 THEN <<>>
                 ELSE IF produced + 2 > bit_length
                      THEN <<bit_value % 2>>
                      ELSE <<bit_value \div 2, bit_value % 2>>

\* binary_message[:bit_length], the value decode returns
DecodeTruncate(binary_message, bit_length) == FirstN(binary_message, bit_length)

DecodeEntry(in, dna_string, bit_length) ==
    [dna_string |-> dna_string, bit_length |-> bit_length,
     nucleotide_index |-> 0, binary_message |-> <<>>,
     available_nucleotides |-> in.mapping, pc |-> "loop", result |-> <<>>]

DecodeIteration(in, d) ==
    LET nucleotide == d.dna_string[d.nucleotide_index + 1]
        salt_index == Mod2Pow(in.strand_index, in.salt_number)
        bit_index == Mod2Pow(Len(d.binary_message), in.low_order_number)
        previous_value == DecodePrevious(d.binary_message, in.previous_number)
        bits == DecodeBits(d.available_nucleotides,
                           HashInput(bit_index, previous_value, salt_index),
                           nucleotide, Len(d.binary_message), d.bit_length)
        available ==
            Available(in.bio_filter, in.mapping,
                      SubSeq(d.dna_string, 1, d.nucleotide_index + 1))
    IN  [d EXCEPT !.binary_message = d.binary_message \o bits,
                  !.available_nucleotides = available,
                  !.nucleotide_index = d.nucleotide_index + 1,
                  !.pc = IF Len(available) = 0 THEN "raised" ELSE "loop"]

DecodeExit(d) ==
    [d EXCEPT !.pc = "returned",
              !.result = DecodeTruncate(d.binary_message, d.bit_length)]

RECURSIVE DecodeRun(_, _)
DecodeRun(in, d) ==
    IF d.pc # "loop" THEN d
    ELSE IF d.nucleotide_index < Len(d.dna_string)
         THEN LET rest(x) == DecodeRun(in, x)
              IN  Strict(rest, DecodeIteration(in, d))
         ELSE DecodeExit(d)

decode(in, dna_string, bit_length) ==
    DecodeRun(in, DecodeEntry(in, dna_string, bit_length))

(***************************************************************************)
(* repair: InfoVertex.next and the frontier ("heap") of parallel lists.    *)
(* Scores are in thousandths.                                              *)
(***************************************************************************)
correct_penalty == -35
insert_penalty == 1000
delete_penalty == 1000
mutate_penalty == 1000

InfoVertex(previous_value, bit_index, string) ==
    [previous_value |-> previous_value, bit_index |-> bit_index, string |-> string]

\* one child hypothesis: what next appends together to follow_vertices,
\* follow_scores and follow_indices
HeapEntry(vertex, score, index) ==
    [v |-> vertex, s |-> score, i |-> index]

\* int(floor(log2(k))) for 1 <= k <= 4
Log2Floor(k) == IF k = 1 THEN 0 ELSE IF k < 4 THEN 1 ELSE 2

\* product([0, 1], repeat=w) in the order itertools yields
Patterns(w) ==
    IF w = 0 THEN << <<>> >>
    ELSE IF w = 1 THEN << <<0>>, <<1>> >>
    ELSE << <<0, 0>>, <<0, 1>>, <<1, 0>>, <<1, 1>> >>

\* bit_value of a pattern: message_bit[0], or message_bit[0] * 2 + message_bit[1]
PatternValue(message_bit) ==
    IF Len(message_bit) = 0 THEN 0
    ELSE IF Len(message_bit) = 1 THEN message_bit[1]
    ELSE message_bit[1] * 2 + message_bit[2]

\* the previous_value of a child
NextPrevious(previous_value, message_bit, previous_number) ==
    IF Len(message_bit) = 0 THEN previous_value
    ELSE (previous_value * Pow2(Len(message_bit)) + PatternValue(message_bit))
             % Pow2(previous_number)

\* the nucleotide the hash selects for bit_value among 2^w choices, w >= 1
Expected(available_nucleotides, hash_input, bit_value, w) ==
    available_nucleotides[((HashMod(hash_input, Pow2(w)) + bit_value) % Pow2(w)) + 1]

\* the nucleotide a deletion child appends for a pattern, w >= 1
DeletionNucleotide(available_nucleotides, hash_input, message_bit) ==
    IF Len(message_bit) = 1
    THEN Expected(available_nucleotides, hash_input, message_bit[1], 1)
    ELSE Expected(available_nucleotides, hash_input, message_bit[1], 2)

\* the concatenation of F(seq[1]), F(seq[2]), ...
RECURSIVE ConcatFrom(_, _)
ConcatFrom(seqs, n) ==
    IF n > Len(seqs) THEN <<>> ELSE seqs[n] \o ConcatFrom(seqs, n + 1)

Concat(seqs) == ConcatFrom(seqs, 1)

FlatMap(seq, F(_)) == Concat([n \in 1..Len(seq) |-> F(seq[n])])

\* MatchScore that subtracts the mutation penalty
MatchScoreReward(current_score, expected, nucleotide) ==
    IF expected = nucleotide THEN current_score + correct_penalty
    ELSE current_score - mutate_penalty

\* the score of a match/mutate child
MatchScore(current_score, expected, nucleotide) ==
    IF expected = nucleotide THEN current_score + correct_penalty
    ELSE current_score + mutate_penalty

\* whether next returns no children before looking at the available set
NextExhausted(dna_string, nucleotide_index) ==
    nucleotide_index > Len(dna_string) - 1

\* children that take dna_string[nucleotide_index] as correct or mutated
MatchChildren(in, dna_string, vertex, available_nucleotides, hash_input, nucleotide_index, current_score) ==
    LET nucleotide == dna_string[nucleotide_index + 1]
        w == Log2Floor(Len(available_nucleotides))
        child(message_bit) ==
            IF w = 0
            THEN <<HeapEntry(InfoVertex(vertex.previous_value, vertex.bit_index,
                                        Append(vertex.string, nucleotide)),
                             current_score + correct_penalty,
                             nucleotide_index + 1)>>
            ELSE <<HeapEntry(
                     InfoVertex(NextPrevious(vertex.previous_value, message_bit,
                                             in.previous_number),
                                vertex.bit_index + w,
                                Append(vertex.string, nucleotide)),
                     MatchScore(current_score,
                                Expected(available_nucleotides, hash_input,
                                         PatternValue(message_bit), w),
                                nucleotide),
                     nucleotide_index + 1)>>
    IN  IF InSeq(nucleotide, available_nucleotides)
        THEN FlatMap(Patterns(w), child)
        ELSE <<>>

\* children that take dna_string[nucleotide_index] as inserted
InsertionChildren(in, dna_string, vertex, available_nucleotides, hash_input, nucleotide_index, current_score) ==
    LET nucleotide == dna_string[nucleotide_index + 2]
        w == Log2Floor(Len(available_nucleotides))
        child(message_bit) ==
            IF w = 0
            THEN <<HeapEntry(InfoVertex(vertex.previous_value, vertex.bit_index,
                                        Append(vertex.string, nucleotide)),
                             current_score + insert_penalty,
                             nucleotide_index + 2)>>
            ELSE IF Expected(available_nucleotides, hash_input,
                             PatternValue(message_bit), w) = nucleotide
            THEN <<HeapEntry(
                     InfoVertex(NextPrevious(vertex.previous_value, message_bit,
                                             in.previous_number),
                                vertex.bit_index + w,
                                Append(vertex.string, nucleotide)),
                     current_score + insert_penalty,
                     nucleotide_index + 2)>>
            ELSE <<>>
    IN  IF nucleotide_index + 1 < Len(dna_string)
        THEN IF InSeq(nucleotide, available_nucleotides)
             THEN FlatMap(Patterns(w), child)
             ELSE <<>>
        ELSE <<>>

\* children that take a nucleotide as deleted before dna_string[nucleotide_index]
DeletionChildren(in, vertex, available_nucleotides, hash_input, nucleotide_index, current_score) ==
    LET w == Log2Floor(Len(available_nucleotides))
        free(nucleotide) ==
            <<HeapEntry(InfoVertex(vertex.previous_value, vertex.bit_index,
                                   Append(vertex.string, nucleotide)),
                        current_score + delete_penalty, nucleotide_index)>>
        child(message_bit) ==
            IF w = 0
            THEN FlatMap(available_nucleotides, free)
            ELSE <<HeapEntry(
                     InfoVertex(NextPrevious(vertex.previous_value, message_bit,
                                             in.previous_number),
                                vertex.bit_index + w,
                                Append(vertex.string,
                                       DeletionNucleotide(available_nucleotides,
                                                          hash_input, message_bit))),
                     current_score + delete_penalty,
                     nucleotide_index)>>
    IN  FlatMap(Patterns(w), child)

\* FollowLengths that leaves out the bit count of the last child
FollowLengthsShort(follow_vertices) ==
    [n \in 1..(Len(follow_vertices) - 1) |-> follow_vertices[n].bit_index]

\* [v.bit_index for v in follow_vertices] (line 337)
FollowLengths(follow_vertices) ==
    [n \in 1..Len(follow_vertices) |-> follow_vertices[n].bit_index]

\* the four lists next returns for a sequence of child hypotheses
FollowInfo(children) ==
    LET follow_vertices == [n \in 1..Len(children) |-> children[n].v]
    IN  <<follow_vertices,
          [n \in 1..Len(children) |-> children[n].s],
          [n \in 1..Len(children) |-> children[n].i],
          FollowLengths(follow_vertices)>>

\* InfoVertex.next: follow_vertices, follow_scores, follow_indices and the bit
\* counts of follow_vertices
next(in, dna_string, vertex, nucleotide_index, current_score) ==
    LET salt_value == Mod2Pow(in.strand_index, in.salt_number)
        bit_index == Mod2Pow(vertex.bit_index, in.low_order_number)
        follow(local) ==
            LET available_nucleotides == local[1]
                hash_input == local[2]
            IN  IF Len(available_nucleotides) = 0 THEN <<>>
                ELSE MatchChildren(in, dna_string, vertex, available_nucleotides,
                                   hash_input, nucleotide_index, current_score)
                     \o InsertionChildren(in, dna_string, vertex,
                                          available_nucleotides, hash_input,
                                          nucleotide_index, current_score)
                     \o DeletionChildren(in, vertex, available_nucleotides,
                                         hash_input, nucleotide_index,
                                         current_score)
    IN  IF NextExhausted(dna_string, nucleotide_index)
        THEN << <<>>, <<>>, <<>>, <<>> >>
        ELSE Strict(FollowInfo,
                    Strict(follow,
                           <<Available(in.bio_filter, in.mapping, vertex.string),
                             HashInput(bit_index, vertex.previous_value, salt_value)>>))

MinOf(set) ==
    LET least(S) == CHOOSE x \in S : \A y \in S : x <= y
    IN  Strict(least, set)

MaxOf(set) ==
    LET greatest(S) == CHOOSE x \in S : \A y \in S : x >= y
    IN  Strict(greatest, set)

\* where(array(heap["s"]) == min(heap["s"]))[0]: the indices, ascending
MinimumIndices(heap) ==
    LET indices(least) ==
            SelectSeq([n \in 1..Len(heap.s) |-> n], LAMBDA n : heap.s[n] = least)
    IN  Strict(indices, MinOf({heap.s[n] : n \in 1..Len(heap.s)}))

\* the score that retires an expanded vertex: len(dna_string), in thousandths
RetiredScore(dna_string) == Len(dna_string) * 1000

\* Finished that ends the search once bit_length is reached or passed
FinishedAtLeast(heap, bit_length, heap_limitation) ==
    \/ bit_length <= MaxOf({heap.l[n] : n \in 1..Len(heap.l)})
    \/ Len(heap.v) > heap_limitation

\* the condition that ends the search (line 356)
Finished(heap, bit_length, heap_limitation) ==
    \/ bit_length = MaxOf({heap.l[n] : n \in 1..Len(heap.l)})
    \/ Len(heap.v) > heap_limitation

\* TerminalIndices that keeps only the first entry that reached bit_length
TerminalIndicesFirst(heap, bit_length) ==
    FirstN(SelectSeq([n \in 1..Len(heap.l) |-> n], LAMBDA n : heap.l[n] = bit_length), 1)

\* where(lengths == bit_length)[0]
TerminalIndices(heap, bit_length) ==
    SelectSeq([n \in 1..Len(heap.l) |-> n], LAMBDA n : heap.l[n] = bit_length)

\* list(set(results)) as a set
Results(heap, terminal_indices) ==
    {heap.v[terminal_indices[n]].string : n \in 1..Len(terminal_indices)}

\* the state of repair before its while loop (lines 339-340)
RepairEntry(dna_string, bit_length, heap_limitation, initial_score) ==
    [pc |-> "select", dna_string |-> dna_string, bit_length |-> bit_length,
     heap_limitation |-> heap_limitation,
     heap |-> [v |-> <<InfoVertex(0, 0, <<>>)>>, s |-> <<initial_score>>,
              i |-> <<0>>, l |-> <<0>>],
     used_indices |-> <<>>, used_score |-> 0, position |-> 0,
     terminal_indices |-> <<>>, results |-> {}, size |-> 0]

\* the head of the while loop (lines 344-346)
RepairSelection(r) ==
    [r EXCEPT !.pc = "batch",
              !.used_indices = MinimumIndices(r.heap),
              !.used_score = r.heap.s[MinimumIndices(r.heap)[1]],
              !.position = 1]

\* one iteration of the for loop over used_indices (lines 347-363)
RepairExpansion(in, r) ==
    LET chuck == r.used_indices[r.position]
        used_vertex == r.heap.v[chuck]
        base_index == r.heap.i[chuck]
        retired == [r.heap EXCEPT !.s[chuck] = RetiredScore(r.dna_string)]
        \* lines 362-363
        appended(follow_info) ==
            [v |-> retired.v \o follow_info[1], l |-> retired.l \o follow_info[4],
             s |-> retired.s \o follow_info[2], i |-> retired.i \o follow_info[3]]
    IN  IF Finished(retired, r.bit_length, r.heap_limitation)
        THEN [r EXCEPT !.pc = "finished", !.heap = retired,
                       !.terminal_indices = TerminalIndices(retired, r.bit_length)]
        ELSE [r EXCEPT !.heap = Strict(appended,
                                       next(in, r.dna_string, used_vertex,
                                            base_index, r.used_score)),
                       !.position = r.position + 1,
                       !.pc = IF r.position = Len(r.used_indices)
                              THEN "select" ELSE "batch"]

\* the return (lines 365-370)
RepairExit(r) ==
    [r EXCEPT !.pc = "returned",
              !.results = Results(r.heap, r.terminal_indices),
              !.size = Len(r.heap.v)]

(***************************************************************************)
(* The inputs the model draws.                                             *)
(***************************************************************************)
Messages == UNION {BitStrings(n) : n \in 0..MaxBits}

StrandIndices == {0, 5}

Mappings == {<<"A", "C", "G", "T">>, <<"C", "G", "T", "A">>}

LocalBioFilter(observed_length, max_homopolymer_runs, gc_range, undesired_motifs) ==
    [observed_length |-> observed_length,
     max_homopolymer_runs |-> max_homopolymer_runs,
     gc_range |-> gc_range, undesired_motifs |-> undesired_motifs]

\* no constraint: four nucleotides are available everywhere
FilterFree == LocalBioFilter(10, 0, <<>>, {})
\* no repeated nucleotide: three are available after the first
FilterRuns == LocalBioFilter(10, 1, <<>>, {})
\* half of every window of two is G or C: two are available after the first
FilterPairs == LocalBioFilter(2, 0, <<5, 5>>, {})
\* every nucleotide is G or C: the window of one rejects "A" and "T" alone
FilterStrong == LocalBioFilter(1, 0, <<10, 10>>, {})
\* half of every window of three is G or C: no third nucleotide is valid
FilterOdd == LocalBioFilter(3, 0, <<5, 5>>, {})
\* only "T" may follow "A"
FilterMotifs == LocalBioFilter(3, 1, <<>>, {<<"A", "C">>, <<"A", "G">>})

\* G and C alternate: one nucleotide is available after "G" and after "C"
FilterAlternate == LocalBioFilter(2, 1, <<10, 10>>, {})

Filters ==
    {FilterFree, FilterRuns, FilterPairs, FilterStrong, FilterOdd, FilterMotifs}

\* the defaults of salt_number, previous_number and low_order_number
DefaultParameters ==
    [salt_number |-> 46, previous_number |-> 8, low_order_number |-> 10]
\* narrow registers, so that short messages fill and wrap them
NarrowParameters ==
    [salt_number |-> 2, previous_number |-> 2, low_order_number |-> 2]

Parameters == {DefaultParameters, NarrowParameters}

Inputs ==
    {[binary_message |-> b, strand_index |-> i, mapping |-> m, bio_filter |-> f,
      salt_number |-> p.salt_number, previous_number |-> p.previous_number,
      low_order_number |-> p.low_order_number] :
        b \in Messages, i \in StrandIndices, m \in Mappings, f \in Filters,
        p \in Parameters}

(***************************************************************************)
(* State: the arguments, and the state of one call of encode, of decode    *)
(* and of repair.                                                          *)
(***************************************************************************)
VARIABLES input, enc, dec, rep

vars == <<input, enc, dec, rep>>

DecodeIdle ==
    [dna_string |-> <<>>, bit_length |-> 0, nucleotide_index |-> 0,
     binary_message |-> <<>>, available_nucleotides |-> <<>>, pc |-> "idle",
     result |-> <<>>]

RepairIdle ==
    [pc |-> "idle", dna_string |-> <<>>, bit_length |-> 0, heap_limitation |-> 0,
     heap |-> [v |-> <<>>, s |-> <<>>, i |-> <<>>, l |-> <<>>],
     used_indices |-> <<>>, used_score |-> 0, position |-> 0,
     terminal_indices |-> <<>>, results |-> {}, size |-> 0]

InitCodec ==
    /\ input \in Inputs
    /\ enc = EncodeEntry(input)
    /\ dec = DecodeIdle
    /\ rep = RepairIdle

\* one iteration of the while loop of encode (lines 66-102)
EncodeStep ==
    /\ enc.pc = "loop"
    /\ enc.bit_location < Len(input.binary_message)
    /\ Len(enc.dna_string) < MaxStrand
    /\ enc' = EncodeIteration(input, enc)
    /\ UNCHANGED <<input, dec, rep>>

\* the loop condition fails: return dna_string (line 104)
EncodeReturn ==
    /\ enc.pc = "loop"
    /\ ~ (enc.bit_location < Len(input.binary_message))
    /\ enc' = EncodeExit(enc)
    /\ UNCHANGED <<input, dec, rep>>

\* a call of decode: on the encoder's string with the message length, or on
\* any prefix of what the encoder produced with any bit length
DecodeStart ==
    /\ enc.pc \in {"returned", "raised"}
    /\ dec.pc = "idle"
    /\ \E n \in 0..Len(enc.dna_string), bit_length \in 0..(MaxBits + 1) :
           dec' = DecodeEntry(input, FirstN(enc.dna_string, n), bit_length)
    /\ UNCHANGED <<input, enc, rep>>

\* one iteration of the for loop of decode (lines 144-177)
DecodeStep ==
    /\ dec.pc = "loop"
    /\ dec.nucleotide_index < Len(dec.dna_string)
    /\ dec' = DecodeIteration(input, dec)
    /\ UNCHANGED <<input, enc, rep>>

\* the string is consumed: truncate and return (lines 179-181)
DecodeReturn ==
    /\ dec.pc = "loop"
    /\ ~ (dec.nucleotide_index < Len(dec.dna_string))
    /\ dec' = DecodeExit(dec)
    /\ UNCHANGED <<input, enc, rep>>

NextCodec ==
    \/ EncodeStep
    \/ EncodeReturn
    \/ DecodeStart
    \/ DecodeStep
    \/ DecodeReturn

SpecCodec == InitCodec /\ [][NextCodec]_vars

(***************************************************************************)
(* Calls of encode alone, the oracle under which G and C alternate         *)
(* included.                                                               *)
(***************************************************************************)
EncoderInputs ==
    {[in EXCEPT !.bio_filter = f] : in \in Inputs, f \in Filters \cup {FilterAlternate}}

InitEncoder ==
    /\ input \in EncoderInputs
    /\ enc = EncodeEntry(input)
    /\ dec = DecodeIdle
    /\ rep = RepairIdle

NextEncoder ==
    \/ EncodeStep
    \/ EncodeReturn

SpecEncoder == InitEncoder /\ [][NextEncoder]_vars

(***************************************************************************)
(* The repair specification: a message is encoded, the string is received  *)
(* clean or with one substitution, insertion or deletion, and repaired.    *)
(***************************************************************************)
Nucleotides == {"A", "C", "G", "T"}

Substitutions(string) ==
    {[string EXCEPT ![p] = n] : p \in 1..Len(string), n \in Nucleotides}
        \ {string}

Insertions(string) ==
    {SubSeq(string, 1, p) \o <<n>> \o SubSeq(string, p + 1, Len(string)) :
        p \in 0..Len(string), n \in Nucleotides}

Deletions(string) ==
    {SubSeq(string, 1, p - 1) \o SubSeq(string, p + 1, Len(string)) :
        p \in 1..Len(string)}

Received(string) ==
    {string} \cup Substitutions(string) \cup Insertions(string)
        \cup Deletions(string)

HeapLimits == {3, MaxHeap}

InitRepair ==
    /\ input \in Inputs
    /\ Len(input.binary_message) <= MaxRepairBits
    /\ enc = encode(input)
    /\ enc.pc = "returned"
    /\ dec = DecodeIdle
    /\ rep = RepairIdle

\* a call of repair with initial_score = 0 and bit_length = len(binary_message)
RepairStart ==
    /\ rep.pc = "idle"
    /\ \E dna_string \in Received(enc.result), heap_limitation \in HeapLimits :
           rep' = RepairEntry(dna_string, Len(input.binary_message),
                              heap_limitation, 0)
    /\ UNCHANGED <<input, enc, dec>>

RepairSelect ==
    /\ rep.pc = "select"
    /\ rep' = RepairSelection(rep)
    /\ UNCHANGED <<input, enc, dec>>

RepairChuck ==
    /\ rep.pc = "batch"
    /\ rep' = RepairExpansion(input, rep)
    /\ UNCHANGED <<input, enc, dec>>

RepairReturn ==
    /\ rep.pc = "finished"
    /\ rep' = RepairExit(rep)
    /\ UNCHANGED <<input, enc, dec>>

NextRepair ==
    \/ RepairStart
    \/ RepairSelect
    \/ RepairChuck
    \/ RepairReturn

SpecRepair == InitRepair /\ [][NextRepair]_vars

\* the repair specification for messages of at most MaxFairBits bits with
\* the default arguments; the while loop of repair is not interrupted
InitFair ==
    /\ InitRepair
    /\ Len(input.binary_message) <= MaxFairBits
    /\ input.strand_index = 0
    /\ input.mapping = <<"A", "C", "G", "T">>
    /\ input.previous_number = DefaultParameters.previous_number

FairRepair == InitFair /\ [][NextRepair]_vars /\ WF_vars(NextRepair)

(***************************************************************************)
(* Properties.                                                             *)
(***************************************************************************)
\* the decoder was called on the string encode returned, with the length of
\* the message
Transcoding ==
    /\ enc.pc = "returned"
    /\ dec.pc # "idle"
    /\ dec.dna_string = enc.result
    /\ dec.bit_length = Len(input.binary_message)

\* C1: decode of the string encode returned, with the same arguments and
\* bit_length = len(binary_message), does not raise and returns exactly the
\* message, also when the message has odd length and ends in a ragged step
\* of four available nucleotides.
RoundTrip ==
    Transcoding =>
        /\ dec.pc # "raised"
        /\ dec.pc = "returned" => dec.result = input.binary_message

\* a round trip of a 3-bit message whose last nucleotide stood for 2 bits
RoundTripWitness ==
    /\ Transcoding
    /\ dec.pc = "returned"
    /\ dec.result = input.binary_message
    /\ Len(input.binary_message) = 3
    /\ enc.bit_location = 4
    /\ input.binary_message[3] = 1

\* repair has returned within the heap limit
ReturnedWithinLimit ==
    /\ rep.pc = "returned"
    /\ rep.size <= rep.heap_limitation

\* C2: repair of the string encode returned, with initial_score = 0 and
\* bit_length = len(binary_message), returns a candidate set that contains
\* that string whenever it returns with a heap no larger than the limit.
RepairAgreement ==
    (ReturnedWithinLimit /\ rep.dna_string = enc.result)
        => enc.result \in rep.results

\* C3: every non-empty prefix of the string encode returns, the first
\* nucleotide alone included, is valid for the oracle (only_last = True).
EncoderConstraintSafety ==
    enc.pc = "returned" =>
        \A n \in 1..Len(enc.result) :
            valid(input.bio_filter, SubSeq(enc.result, 1, n))

\* received differs from string in exactly one nucleotide, which is not the last
IsSubstitution(received, string) ==
    /\ Len(received) = Len(string)
    /\ \E p \in 1..(Len(string) - 1) :
           /\ received[p] # string[p]
           /\ \A q \in 1..Len(string) : q # p => received[q] = string[q]

\* C4: when one nucleotide other than the last of the encoded string is
\* replaced by a different one, repair returns a candidate set that contains
\* the encoded string (whenever it returns within the heap limit).
SubstitutionRecovery ==
    (ReturnedWithinLimit /\ IsSubstitution(rep.dna_string, enc.result))
        => enc.result \in rep.results

\* C5: when one nucleotide is inserted into, or deleted from, the encoded
\* string, repair returns a candidate set that contains the encoded string
\* (whenever it returns within the heap limit).
IndelRecovery ==
    (/\ ReturnedWithinLimit
     /\ rep.dna_string \in Insertions(enc.result) \cup Deletions(enc.result))
        => enc.result \in rep.results

\* C6: whenever decode returns, for any nucleotide string and bit_length, the
\* returned message has exactly bit_length bits.
DecodeLength ==
    dec.pc = "returned" => Len(dec.result) = dec.bit_length

\* the available set the encoder recomputed at some step is empty
EncoderBlocked ==
    \E n \in 1..Len(enc.dna_string) :
        Available(input.bio_filter, input.mapping, SubSeq(enc.dna_string, 1, n))
            = <<>>

\* C7: encode raises, with the strand index in the error and no string
\* returned, if and only if the available set recomputed after some emitted
\* nucleotide is empty; every other finished run returns the string.
EncoderFailure ==
    /\ (enc.pc = "raised") <=> EncoderBlocked
    /\ enc.pc = "raised" =>
           /\ enc.error_index = input.strand_index
           /\ enc.result = <<>>
    /\ enc.pc = "returned" =>
           /\ enc.result = enc.dna_string
           /\ enc.error_index = -1

\* encode raised for strand 5 after emitting nucleotides
EncoderFailureWitness ==
    /\ enc.pc = "raised"
    /\ input.strand_index = 5
    /\ enc.error_index = 5
    /\ Len(enc.dna_string) >= 2
    /\ enc.bit_location < Len(input.binary_message)

\* the available set at position n of the encoder's string (the first is the
\* mapping itself)
PositionAvailable(n) ==
    IF n = 0 THEN input.mapping
    ELSE Available(input.bio_filter, input.mapping, SubSeq(enc.dna_string, 1, n))

\* four nucleotides were available at every position of the encoder's string
AllFour ==
    \A n \in 0..(Len(enc.dna_string) - 1) : Len(PositionAvailable(n)) = 4

\* C8: a returned string for L bits has at least ceil(L / 2) nucleotides;
\* when four nucleotides were available at every position it has exactly
\* ceil(L / 2), which is at most L; it is longer than ceil(L / 2) only when
\* some position had fewer than four.
LengthBound ==
    enc.pc = "returned" =>
        LET L == Len(input.binary_message)
            half == (L + 1) \div 2
        IN  /\ Len(enc.result) >= half
            /\ AllFour => (Len(enc.result) = half /\ Len(enc.result) <= L)
            /\ Len(enc.result) > half => ~ AllFour

\* three bits were encoded in two nucleotides, four being available throughout
LengthBoundWitness ==
    /\ enc.pc = "returned"
    /\ AllFour
    /\ Len(input.binary_message) = 3
    /\ Len(enc.result) = 2

\* C9: repair eventually returns, for every received string (the empty one
\* included), bit length, oracle and finite heap limit.
RepairTerminates == <>(rep.pc = "returned")

\* C10: when repair returns with a heap no larger than the limit, some heap
\* entry has produced exactly bit_length bits and the candidate set is not
\* empty; an empty candidate set comes only with a heap larger than the limit.
BudgetObservable ==
    rep.pc = "returned" =>
        /\ rep.size = Len(rep.heap.v)
        /\ rep.size <= rep.heap_limitation =>
               /\ \E n \in 1..Len(rep.heap.v) : rep.heap.l[n] = rep.bit_length
               /\ rep.results # {}
        /\ rep.results = {} => rep.size > rep.heap_limitation

\* repair of a corrupted string returned candidates within the heap limit
BudgetObservableWitness ==
    /\ ReturnedWithinLimit
    /\ rep.results # {}
    /\ rep.dna_string # enc.result
    /\ Len(rep.heap.v) > 3

\* C11: on return the candidates (list(set(results)), a list without
\* duplicates, kept as a set) are exactly the strings of the heap entries,
\* retired or not, whose bit count equals bit_length when the loop ended, and
\* the second component is the number of heap entries at that moment.
RepairResult ==
    rep.pc = "returned" =>
        /\ rep.results =
               {rep.heap.v[n].string :
                    n \in {k \in 1..Len(rep.heap.v) : rep.heap.l[k] = rep.bit_length}}
        /\ rep.size = Len(rep.heap.v)

\* repair returned several candidates, one of them from a retired entry
RepairResultWitness ==
    /\ rep.pc = "returned"
    /\ Cardinality(rep.results) >= 2
    /\ \E n \in 1..Len(rep.heap.v) :
           /\ rep.heap.l[n] = rep.bit_length
           /\ rep.heap.s[n] = RetiredScore(rep.dna_string)
           /\ rep.heap.v[n].string # <<>>

\* an encoder step at a position where two or three nucleotides are available
\* consumes one bit b and emits available[(h + b) % 2]
EncoderOneBit ==
    (/\ enc.pc = "loop"
     /\ Len(enc'.dna_string) = Len(enc.dna_string) + 1
     /\ Len(enc.available_nucleotides) \in {2, 3}) =>
        LET available == enc.available_nucleotides
            b == input.binary_message[enc.bit_location + 1]
            h == HashMod(HashInput(Mod2Pow(enc.bit_location, input.low_order_number),
                                   EncodePrevious(input.binary_message,
                                                  enc.bit_location,
                                                  input.previous_number),
                                   Mod2Pow(input.strand_index, input.salt_number)),
                         2)
            nucleotide == enc'.dna_string[Len(enc'.dna_string)]
        IN  /\ enc'.bit_location = enc.bit_location + 1
            /\ nucleotide = available[((h + b) % 2) + 1]
            /\ nucleotide \in {available[1], available[2]}

\* a decoder step on the encoder's string at such a position appends exactly
\* the message bit of that position
DecoderOneBit ==
    (/\ Transcoding
     /\ dec.pc = "loop"
     /\ dec'.nucleotide_index = dec.nucleotide_index + 1
     /\ Len(dec.available_nucleotides) \in {2, 3}) =>
        /\ Len(dec.binary_message) < Len(input.binary_message)
        /\ dec'.binary_message =
               Append(dec.binary_message,
                      input.binary_message[Len(dec.binary_message) + 1])

\* C12: where two or three nucleotides are available the encoder consumes
\* exactly one bit b and emits available[(h + b) mod 2], one of the first two
\* entries and never the third, and the decoder recovers exactly that bit.
ThreeAsTwo == [][EncoderOneBit /\ DecoderOneBit]_vars

\* a message was encoded through a position with three available nucleotides
\* and decoded back
ThreeAsTwoWitness ==
    /\ Transcoding
    /\ dec.pc = "returned"
    /\ dec.result = input.binary_message
    /\ Len(input.binary_message) >= 3
    /\ \E n \in 1..(Len(enc.result) - 1) : Len(PositionAvailable(n)) = 3

\* C13: as soon as the largest bit count of the heap is at least bit_length,
\* also when a 2-bit step went from bit_length - 1 to bit_length + 1 and no
\* entry holds exactly bit_length, the next termination check (the one of the
\* next vertex taken from the batch) ends the search.
TerminationRule ==
    [][(/\ rep.pc = "batch"
        /\ MaxOf({rep.heap.l[n] : n \in 1..Len(rep.heap.v)}) >= rep.bit_length)
           => rep'.pc = "finished"]_vars

\* C14: along every edge of the search (match, mutate, insertion, deletion),
\* with the default penalties, the score of the child is at least the score
\* under which its parent was expanded.
ScoreMonotone ==
    [][rep.pc = "batch" =>
           \A n \in (Len(rep.heap.v) + 1)..Len(rep'.heap.v) :
               rep'.heap.s[n] >= rep.used_score]_vars

\* C14 as amended: the score of a child is at least the score under which its
\* parent was expanded plus correct_penalty; it is below the parent's score
\* only on a match edge (the received nucleotide is the expected one, by
\* exactly correct_penalty) and above it by a whole penalty on every mutate,
\* insertion and deletion edge.
ScoreFloor ==
    [][rep.pc = "batch" =>
           \A n \in (Len(rep.heap.v) + 1)..Len(rep'.heap.v) :
               LET child == HeapEntry(rep'.heap.v[n], rep'.heap.s[n], rep'.heap.i[n])
                   base_index == rep.heap.i[rep.used_indices[rep.position]]
               IN  /\ child.s >= rep.used_score + correct_penalty
                   /\ child.s \in {rep.used_score + correct_penalty,
                                   rep.used_score + mutate_penalty,
                                   rep.used_score + insert_penalty,
                                   rep.used_score + delete_penalty}
                   /\ child.s < rep.used_score =>
                          /\ child.i = base_index + 1
                          /\ child.v.string[Len(child.v.string)]
                                 = rep.dna_string[base_index + 1]]_vars

\* the heap holds a child of two match edges and a child of a match edge
\* after a penalty edge
ScoreFloorWitness ==
    /\ rep.pc \in {"select", "batch"}
    /\ \E n \in 1..Len(rep.heap.v) : rep.heap.s[n] = 2 * correct_penalty
    /\ \E n \in 1..Len(rep.heap.v) : rep.heap.s[n] = mutate_penalty + correct_penalty

\* C15: the score len(dna_string) that retires an expanded vertex is strictly
\* greater than the score of every vertex not yet expanded, so no vertex is
\* selected and expanded a second time: the minimum score under which a batch
\* is selected, once the root has been expanded, is strictly below the retiring
\* score (a batch selected at the retiring score holds a retired vertex, or a
\* vertex not yet expanded whose score the retiring score does not exceed).
RetirementSentinel ==
    (rep.pc = "batch" /\ Len(rep.heap.v) > 1)
        => rep.used_score < RetiredScore(rep.dna_string)

\* C16: the termination conditions are evaluated only after every vertex of
\* the batch has been expanded and its children appended: when the search
\* ends at a termination check, no vertex of the current batch was expanded
\* before that check and the check discards no children of the vertex it
\* follows.
BatchExpansion ==
    [][(rep.pc = "batch" /\ rep'.pc = "finished") =>
           LET chuck == rep.used_indices[rep.position]
           IN  /\ rep.position = 1
               /\ next(input, rep.dna_string, rep.heap.v[chuck], rep.heap.i[chuck],
                       rep.used_score)[1] = <<>>]_vars

\* C17: a vertex whose bit hypotheses are the first bits of the message
\* (while the register has not wrapped it holds exactly the hypothesised
\* bits, so such a vertex is one whose register reads those message bits)
\* carries in its register the previous_value the encoder uses at that bit
\* offset, also at offsets smaller than previous_number.
RegisterAgreement ==
    \A n \in 1..Len(rep.heap.v) :
        LET vertex == rep.heap.v[n]
        IN  (/\ vertex.bit_index <= Len(input.binary_message)
             /\ vertex.bit_index <= input.previous_number
             /\ vertex.previous_value
                    = BitsValue(input.binary_message, vertex.bit_index))
                => vertex.previous_value
                       = EncodePrevious(input.binary_message, vertex.bit_index,
                                        input.previous_number)

\* C18: when a vertex with w >= 1 is expanded, its deletion children (the
\* children whose consumed index is the parent's) are one per bit pattern, in
\* pattern order; each appends the nucleotide the hash selects for the whole
\* value of the pattern (2 * m[0] + m[1] when w = 2), the one the match branch
\* expects for that value, keeps the consumed index and adds delete_penalty.
DeletionForward ==
    [][(rep.pc = "batch" /\ Len(rep'.heap.v) > Len(rep.heap.v)) =>
           LET chuck == rep.used_indices[rep.position]
               parent == rep.heap.v[chuck]
               base_index == rep.heap.i[chuck]
               available == Available(input.bio_filter, input.mapping, parent.string)
               w == Log2Floor(Len(available))
               hash_input ==
                   HashInput(Mod2Pow(parent.bit_index, input.low_order_number),
                             parent.previous_value,
                             Mod2Pow(input.strand_index, input.salt_number))
               size == Len(rep.heap.v)
               children ==
                   [n \in 1..(Len(rep'.heap.v) - size) |->
                       HeapEntry(rep'.heap.v[size + n], rep'.heap.s[size + n],
                                 rep'.heap.i[size + n])]
               deleted == SelectSeq(children, LAMBDA c : c.i = base_index)
               forward(m) ==
                   HeapEntry(InfoVertex(NextPrevious(parent.previous_value, m,
                                                     input.previous_number),
                                        parent.bit_index + w,
                                        Append(parent.string,
                                               Expected(available, hash_input,
                                                        PatternValue(m), w))),
                             rep.used_score + delete_penalty, base_index)
           IN  w >= 1 =>
                   deleted = [n \in 1..Len(Patterns(w)) |-> forward(Patterns(w)[n])]]_vars

\* C19: a vertex that has consumed the whole received string and has a
\* non-empty available set still gets its deletion children when it is
\* expanded (consumed index unchanged, score plus delete_penalty).
DeletionAtEnd ==
    [][(/\ rep.pc = "batch"
        /\ rep'.pc # "finished"
        /\ rep.heap.i[rep.used_indices[rep.position]] = Len(rep.dna_string)
        /\ Available(input.bio_filter, input.mapping,
                     rep.heap.v[rep.used_indices[rep.position]].string) # <<>>)
           => \E n \in (Len(rep.heap.v) + 1)..Len(rep'.heap.v) :
                  /\ rep'.heap.i[n] = Len(rep.dna_string)
                  /\ rep'.heap.s[n] = rep.used_score + delete_penalty]_vars

\* C20: every vertex the search puts on the heap (the heap starts with the
\* empty string and the strings of its entries never change) has only valid
\* non-empty prefixes for the oracle (only_last = True), and its string is
\* the string of the expanded vertex plus one nucleotide that is a member of
\* the available set computed from that string, whichever hypothesis
\* appended it.
RepairConstraintSafety ==
    [][rep.pc = "batch" =>
           LET parent == rep.heap.v[rep.used_indices[rep.position]].string
               available == Available(input.bio_filter, input.mapping, parent)
           IN  /\ \A n \in 1..Len(rep.heap.v) :
                      n <= Len(rep'.heap.v) /\ rep'.heap.v[n] = rep.heap.v[n]
               /\ \A n \in (Len(rep.heap.v) + 1)..Len(rep'.heap.v) :
                      LET string == rep'.heap.v[n].string
                      IN  /\ Len(string) = Len(parent) + 1
                          /\ SubSeq(string, 1, Len(parent)) = parent
                          /\ InSeq(string[Len(string)], available)
                          /\ \A k \in 1..Len(string) :
                                 valid(input.bio_filter, SubSeq(string, 1, k))]_vars

\* under an oracle that rejects repeats, the heap holds a vertex built by two
\* deletion hypotheses and a vertex built by an insertion hypothesis, and the
\* received string itself is not valid
RepairConstraintSafetyWitness ==
    /\ rep.pc \in {"select", "batch", "finished", "returned"}
    /\ input.bio_filter = FilterRuns
    /\ ~ valid(input.bio_filter, rep.dna_string)
    /\ \E n \in 1..Len(rep.heap.v) :
           rep.heap.i[n] = 0 /\ Len(rep.heap.v[n].string) = 2
    /\ \E n \in 1..Len(rep.heap.v) :
           rep.heap.i[n] = 2 /\ Len(rep.heap.v[n].string) = 1

\* the encoder is in its loop with bits left, in a configuration it was in
\* before: since some earlier position m no bit was consumed (one nucleotide
\* was available at every position from m on) and the oracle sees at the end
\* of the string the window it saw at m
EncoderStuck ==
    /\ enc.pc = "loop"
    /\ enc.bit_location < Len(input.binary_message)
    /\ \E m \in 1..(Len(enc.dna_string) - 1) :
           /\ m >= input.bio_filter.observed_length
           /\ \A i \in m..Len(enc.dna_string) : Len(PositionAvailable(i)) = 1
           /\ LastN(SubSeq(enc.dna_string, 1, m), input.bio_filter.observed_length)
                  = LastN(enc.dna_string, input.bio_filter.observed_length)

\* C21: encode eventually returns or raises for every message, mapping and
\* oracle. An iteration is determined by the bit cursor and by the window of
\* the oracle at the end of the string, so a run that ends is never, with bits
\* left, in a configuration it was in before: in particular not through
\* positions where one nucleotide is available and no bit is consumed.
EncoderTerminates == ~ EncoderStuck

\* the four lists of the frontier have one length, each stored bit count is
\* its vertex's bit_index, and each consumed index lies in 0..|R| and is at
\* most twice the length of the vertex's string (an edge appends one
\* nucleotide and consumes at most two received ones)
FrontierShape ==
    /\ Len(rep.heap.v) = Len(rep.heap.s)
    /\ Len(rep.heap.v) = Len(rep.heap.i)
    /\ Len(rep.heap.v) = Len(rep.heap.l)
    /\ \A n \in 1..Len(rep.heap.v) :
           /\ rep.heap.l[n] = rep.heap.v[n].bit_index
           /\ 0 <= rep.heap.i[n]
           /\ rep.heap.i[n] <= Len(rep.dna_string)
           /\ rep.heap.i[n] <= 2 * Len(rep.heap.v[n].string)

\* an expansion leaves the entries of the frontier in place (but for the
\* score it retires) and every child it appends has one nucleotide more than
\* its parent and a consumed index 0, 1 or 2 above its parent's; 2 is the
\* insertion edge, which skips one received nucleotide, so the string length
\* minus the consumed index plus the skipped nucleotides never decreases
FrontierEdge ==
    rep.pc = "batch" =>
        LET chuck == rep.used_indices[rep.position]
            size == Len(rep.heap.v)
        IN  /\ Len(rep'.heap.v) >= size
            /\ \A n \in 1..size :
                   /\ rep'.heap.v[n] = rep.heap.v[n]
                   /\ rep'.heap.i[n] = rep.heap.i[n]
                   /\ rep'.heap.l[n] = rep.heap.l[n]
            /\ \A n \in (size + 1)..Len(rep'.heap.v) :
                   /\ Len(rep'.heap.v[n].string) = Len(rep.heap.v[chuck].string) + 1
                   /\ rep'.heap.i[n] - rep.heap.i[chuck] \in {0, 1, 2}
                   /\ rep'.heap.i[n] <= Len(rep.dna_string)

\* C22: in every state of repair the four parallel lists of the frontier
\* (vertices, scores, consumed indices, produced bit counts) have the same
\* length, the stored bit count of each entry is its vertex's bit_index, the
\* string of each vertex is at least as long as its consumed index less the
\* nucleotides its insertion edges skipped, and every consumed index j
\* satisfies 0 <= j <= |R|, so that R is never indexed out of range.
FrontierWellFormed == [](FrontierShape) /\ [][FrontierEdge]_vars

\* the frontier of a search in progress holds a vertex that reached the end of
\* the received string through an insertion edge (its string is shorter than
\* its consumed index) and a vertex that produced two bits or more
FrontierWellFormedWitness ==
    /\ rep.pc = "batch"
    /\ Len(rep.heap.v) > 4
    /\ Len(rep.heap.l) = Len(rep.heap.v)
    /\ \E n \in 1..Len(rep.heap.v) :
           /\ rep.heap.i[n] = Len(rep.dna_string)
           /\ Len(rep.heap.v[n].string) < rep.heap.i[n]
    /\ \E n \in 1..Len(rep.heap.v) :
           rep.heap.l[n] >= 2 /\ rep.heap.l[n] = rep.heap.v[n].bit_index

====
